---- MODULE Spec2Model ----
(***************************************************************************)
(* The two benchmark programs of filecoin-proofs/examples:                 *)
(*   drgporep-vanilla-disk.rs  setup, replicate, 30 x (prove, verify),     *)
(*                             statistics                                  *)
(*   encoding.rs               setup, one vde::encode, rate report         *)
(* The cryptographic library (setup, replicate, prove, verify, encode),    *)
(* the generator and the clock are the environment: their results are      *)
(* drawn from small sets.  A std::time::Duration is a record               *)
(* [secs, nanos] with nanos < NANOS_PER_SEC, and its arithmetic is the     *)
(* standard library's, on the two fields.                                  *)
(***************************************************************************)
EXTENDS Integers, Sequences, FiniteSets

(***************************************************************************)
(* Wide arithmetic.  The standard library multiplies in u64; the values    *)
(* here stay below 2^31 but some products do not, so a product a*b is kept *)
(* as its quotient and remainder by the divisor c, <<(a*b) \div c,         *)
(* (a*b) % c>>, and is built from the binary digits of a.                  *)
(***************************************************************************)
\* 2^e
RECURSIVE Pow2(_)
Pow2(e) == IF e = 0 THEN 1 ELSE 2 * Pow2(e - 1)

\* x + y, for x and y each a <<quotient, remainder>> by c.
AddQR(x, y, c) ==
    LET r == x[2] + y[2]
    IN  IF r >= c THEN <<x[1] + y[1] + 1, r - c>> ELSE <<x[1] + y[1], r>>

\* 2^k * x, by halving k.  (A remainder is below c: the test only has the
\* first half evaluated before the second starts.)
RECURSIVE ShiftQR(_, _, _)
ShiftQR(x, k, c) ==
    IF k = 0 THEN x
    ELSE IF k = 1 THEN AddQR(x, x, c)
    ELSE LET y == ShiftQR(x, k \div 2, c)
         IN  IF y[2] < c THEN ShiftQR(y, k - k \div 2, c) ELSE y

\* The part of a*b that the digits lo .. hi-1 of a contribute.
RECURSIVE MulBits(_, _, _, _, _)
MulBits(a, b, c, lo, hi) ==
    IF hi - lo = 1
    THEN IF (a \div Pow2(lo)) % 2 = 0 THEN <<0, 0>>
         ELSE ShiftQR(<<b \div c, b % c>>, lo, c)
    ELSE LET mid == (lo + hi) \div 2
             x   == MulBits(a, b, c, lo, mid)
             y   == MulBits(a, b, c, mid, hi)
         IN  IF x[2] < c /\ y[2] < c THEN AddQR(x, y, c) ELSE x

\* <<(a*b) \div c, (a*b) % c>> for 0 <= a, b < 2^31 and 0 < c <= 2^30.
MulDivRem(a, b, c) == MulBits(a, b, c, 0, 31)

NANOS_PER_SEC == 1000000000

\* Duration::new(secs, nanos): the nanoseconds carry into the seconds.
DurationNew(secs, nanos) ==
    [secs |-> secs + nanos \div NANOS_PER_SEC, nanos |-> nanos % NANOS_PER_SEC]

\* Duration::new(0, 0)
DurationZero == DurationNew(0, 0)

\* Duration + Duration (AddAssign): one carry at most.
DurationAdd(a, b) ==
    LET nanos == a.nanos + b.nanos
    IN  IF nanos >= NANOS_PER_SEC
        THEN [secs |-> a.secs + b.secs + 1, nanos |-> nanos - NANOS_PER_SEC]
        ELSE [secs |-> a.secs + b.secs, nanos |-> nanos]

\* u32 * Duration (Duration::checked_mul): the nanoseconds are multiplied in
\* u64 and carried into the seconds.
DurationMul(rhs, d) ==
    LET total_nanos == MulDivRem(d.nanos, rhs, NANOS_PER_SEC)
    IN  [secs |-> d.secs * rhs + total_nanos[1], nanos |-> total_nanos[2]]

\* Duration / u32 (Duration::checked_div), the two forms the standard
\* library has had.  "split" divides the seconds' remainder and the
\* nanoseconds separately, each truncated; "joint" carries the seconds'
\* remainder into the nanoseconds before the one truncating division.
CheckedDivSplit(d, rhs) ==
    LET secs        == d.secs \div rhs
        carry       == d.secs - secs * rhs
        extra_nanos == MulDivRem(carry, NANOS_PER_SEC, rhs)[1]
    IN  DurationNew(secs, d.nanos \div rhs + extra_nanos)

CheckedDivJoint(d, rhs) ==
    LET secs        == d.secs \div rhs
        extra_secs  == d.secs % rhs
        extra_nanos == d.nanos % rhs
        wide        == MulDivRem(extra_secs, NANOS_PER_SEC, rhs)
    IN  DurationNew(secs, d.nanos \div rhs + wide[1] + (wide[2] + extra_nanos) \div rhs)

DivImpls == {"split", "joint"}

\* Duration / u32 with a divisor that is not zero: the quotient of the
\* build's form.  (A zero divisor panics: see Report.)
DurationDiv(impl, d, rhs) ==
    IF impl = "split" THEN CheckedDivSplit(d, rhs) ELSE CheckedDivJoint(d, rhs)

\* Ordering of durations (Duration derives Ord: seconds, then nanoseconds).
DurationLE(a, b) == a.secs < b.secs \/ (a.secs = b.secs /\ a.nanos <= b.nanos)

DurationLT(a, b) == a.secs < b.secs \/ (a.secs = b.secs /\ a.nanos < b.nanos)

(***************************************************************************)
(* Generator, field elements, buffer.                                      *)
(***************************************************************************)
\* The seed literal of XorShiftRng::from_seed, four u32 words (hex).
SEED == <<"3dbe6259", "8d313d76", "3237db17", "e5bc0654">>

\* new_seed(): a fresh seed from the thread's generator, different per run.
GraphSeeds == {<<"fresh", "a">>, <<"fresh", "b">>}

\* XorShiftRng::from_seed(seed): a generator that has drawn nothing yet.
FromSeed(seed) == [seed |-> seed, drawn |-> 0]

\* rng.gen::<T>(): the next value of the generator's stream and the advanced
\* generator.  A value is named by the stream (the seed) it comes from, its
\* place in the stream and its type; a generator is deterministic, so equal
\* names are equal values.
Gen(rng, ty) ==
    [value |-> [seed |-> rng.seed, draw |-> rng.drawn + 1, ty |-> ty],
     rng   |-> [rng EXCEPT !.drawn = @ + 1]]

\* fr_into_bytes: the canonical serialization of a field element.
FR_BYTES == 32

FrIntoBytes(fr) == [b \in 1..FR_BYTES |-> <<fr, b>>]

\* The loop of file_backed_mmap_from_random_bytes: k more elements are
\* drawn from rng and written at the end of the file.
RECURSIVE WriteElements(_, _, _)
WriteElements(rng, file, k) ==
    IF k = 0 THEN file
    ELSE LET g == Gen(rng, "Fr")
         IN  WriteElements(g.rng, file \o FrIntoBytes(g.value), k - 1)

\* Faulty variant (sensitivity of C8): the buffer's generator is seeded from
\* fresh entropy instead of SEED.
FileBackedMmapFromEntropy(n) == WriteElements(FromSeed(<<"fresh", "a">>), <<>>, n)

\* Faulty variant (sensitivity of C10): the buffer is drawn from the caller's
\* generator, which has already produced the replica identity.
FileBackedMmapFromCallerRng(n) ==
    WriteElements(Gen(FromSeed(SEED), "Fr").rng, <<>>, n)

\* file_backed_mmap_from_random_bytes(n): a generator of its own, started
\* from SEED, fills an empty temporary file, which is then mapped.
FileBackedMmapFromRandomBytes(n) == WriteElements(FromSeed(SEED), <<>>, n)

(***************************************************************************)
(* Command line and parameter assembly.  usize is 64 bits wide and sizes   *)
(* of 2^21 KB and more are in range, so data_size (size * 1024) is carried *)
(* in KB and the quantities derived from it are computed from the KB       *)
(* count.                                                                  *)
(***************************************************************************)
KB == 1024

\* nodes = data_size / 32 = size * 1024 / 32
Nodes(size) == size * (KB \div FR_BYTES)

\* The ceiling of log2 n, n >= 1: the least k with n <= 2^k.
RECURSIVE CeilLog2(_)
CeilLog2(n) == IF n <= 1 THEN 0 ELSE 1 + CeilLog2((n + 1) \div 2)

\* The floor of log2 n, n >= 1: the greatest e with 2^e <= n.
RECURSIVE FloorLog2(_)
FloorLog2(n) == IF n <= 1 THEN 0 ELSE 1 + FloorLog2(n \div 2)

\* nodes as f32: the nearest value with a 24 bit significand, ties to the
\* even significand.
F32_SIGNIFICAND == 24

AsF32(n) ==
    IF n < Pow2(F32_SIGNIFICAND) THEN n
    ELSE LET ulp  == Pow2(FloorLog2(n) - (F32_SIGNIFICAND - 1))
             q    == n \div ulp
             r    == n % ulp
             up   == 2 * r > ulp \/ (2 * r = ulp /\ q % 2 = 1)
         IN  (IF up THEN q + 1 ELSE q) * ulp

\* (nodes as f32).log2().ceil() as usize + 1.  The logarithm is taken of
\* the f32 value; its own rounding to f32 is not modelled (it can only
\* lower the result further, for a value just above a power of two).
PrevLayerBetaHeight(nodes) == CeilLog2(AsF32(nodes)) + 1

BETA_HEIGHT == 0

\* The SetupParams record of drgporep-vanilla-disk.
SetupParams(nodes, m, challenge_count, seed) ==
    [drg |-> [nodes |-> nodes, degree |-> m, expansion_degree |-> 0, seed |-> seed],
     private |-> TRUE,
     challenges_count |-> challenge_count,
     beta_height |-> BETA_HEIGHT,
     prev_layer_beta_height |-> PrevLayerBetaHeight(nodes)]

(***************************************************************************)
(* State.                                                                  *)
(***************************************************************************)
VARIABLES
    program,          \* the binary run: "drgporep" or "encoding"
    args,             \* the parsed command line: size (KB), m, count, hasher
    pc,               \* the position of the one thread
    rng,              \* do_the_work's own generator
    replica_id,
    mmapped,          \* the file-backed buffer (mmapped / data)
    sp,               \* SetupParams
    pp,               \* PublicParams, from setup
    pub_inputs,
    priv_inputs,
    param_duration,
    total_proving,
    total_verifying,
    proofs,           \* Vec of the proofs pushed
    proof,            \* the proof of the current trial
    trial,            \* the loop counter of for _ in 0..samples
    report,           \* what the statistics / rate report prints
    encoding_time,
    calls,            \* history: the library calls made, in order
    deviations        \* environment: deviating outcomes so far

vars == <<program, args, pc, rng, replica_id, mmapped, sp, pp, pub_inputs,
          priv_inputs, param_duration, total_proving, total_verifying, proofs,
          proof, trial, report, encoding_time, calls, deviations>>

None == "none"

(***************************************************************************)
(* Inputs and environment.                                                 *)
(***************************************************************************)
\* Faulty variant (sensitivity of C7): the match has an arm for every name.
MatchesAnyName == {"pedersen", "sha256", "blake2s", "xyz"}

\* The names main matches, and one it does not.
Hashers == {"pedersen", "sha256", "blake2s"}

HasherNames == Hashers \cup {"xyz"}

\* --size in KB.
Sizes == {1, 2}

\* A run the environment may deviate in has these arguments (the defaults
\* of --m, --challenges and --hasher, and the smallest size).
DefaultArgs == [size |-> 1, m |-> 6, count |-> 1, hasher |-> "pedersen"]

\* Deviating outcomes the environment may produce in one run.
MaxDeviations == 1

Nanos(n) == [secs |-> 0, nanos |-> n]

\* Elapsed times of the calls; the first of each is the usual one.
ReplicateTime == Nanos(500000000)

ProveTimes == <<Nanos(33333334), Nanos(33333335)>>

VerifyTimes == <<Nanos(1000), Nanos(1001)>>

\* Serialized lengths of a proof; the first is the usual one.
ShortProof == 2

ProofSizes == <<ShortProof, ShortProof + 1>>

\* The choices of the environment among the outcomes `all` (a sequence, the
\* usual one first): any of them while it may still deviate.
Choices(all) ==
    IF deviations < MaxDeviations THEN {all[j] : j \in 1..Len(all)} ELSE {all[1]}

Deviates(all, x) == IF x = all[1] THEN 0 ELSE 1

\* The results of verify; "Ok(true)" is the usual one.
VerifyResults == <<"Ok(true)", "Ok(false)">>

\* One entry of the call history.
Call(op, arg, ret, took) == [op |-> op, arg |-> arg, ret |-> ret, took |-> took]

\* The number of trials.
samples == 30

(***************************************************************************)
(* drgporep-vanilla-disk.rs                                                *)
(***************************************************************************)
\* What do_the_work assigns later is None until then.
UnsetWork ==
    /\ rng = None /\ replica_id = None /\ mmapped = <<>> /\ sp = None /\ pp = None
    /\ pub_inputs = None /\ priv_inputs = None /\ param_duration = None
    /\ total_proving = None /\ total_verifying = None /\ proofs = <<>>
    /\ proof = None /\ trial = 0 /\ report = None /\ calls = <<>>

Unset == UnsetWork /\ encoding_time = None

\* panic!: the process ends with the message.
Panic(msg) == pc' = "panic" /\ report' = [panic |-> msg]

\* main: the arguments are parsed (args) and the hasher name is matched.
Main ==
    /\ program = "drgporep" /\ pc = "main"
    /\ IF args.hasher \in Hashers
       THEN pc' = "do_the_work" /\ UNCHANGED report
       ELSE Panic(<<"invalid hasher", args.hasher>>)
    /\ UNCHANGED <<program, args, rng, replica_id, mmapped, sp, pp, pub_inputs,
                   priv_inputs, param_duration, total_proving, total_verifying,
                   proofs, proof, trial, encoding_time, calls, deviations>>

\* do_the_work up to the SetupParams: the identity is the first value of a
\* generator started from SEED, the buffer is filled, the graph seed is fresh.
Generate ==
    /\ program = "drgporep" /\ pc = "do_the_work"
    /\ LET g     == Gen(FromSeed(SEED), "Fr")
           nodes == Nodes(args.size)
       IN  /\ rng' = g.rng
           /\ replica_id' = g.value
           /\ mmapped' = FileBackedMmapFromRandomBytes(nodes)
           /\ \E seed \in GraphSeeds : sp' = SetupParams(nodes, args.m, args.count, seed)
    /\ pc' = "setup"
    /\ UNCHANGED <<program, args, pp, pub_inputs, priv_inputs, param_duration,
                   total_proving, total_verifying, proofs, proof, trial, report,
                   encoding_time, calls, deviations>>

\* tempfile(), write_all or map_mut fails: unwrap panics, after the identity
\* was drawn.
GenerateIoError ==
    /\ program = "drgporep" /\ pc = "do_the_work"
    /\ LET g == Gen(FromSeed(SEED), "Fr")
       IN  rng' = g.rng /\ replica_id' = g.value
    /\ Panic(<<"unwrap on Err", "io">>)
    /\ UNCHANGED <<program, args, mmapped, sp, pp, pub_inputs, priv_inputs,
                   param_duration, total_proving, total_verifying, proofs, proof,
                   trial, encoding_time, calls, deviations>>

\* DrgPoRep::setup(&sp).unwrap()
Setup ==
    /\ program = "drgporep" /\ pc = "setup"
    /\ \/ /\ pp' = [graph |-> sp.drg, sp |-> sp]
          /\ calls' = Append(calls, Call("setup", sp, "Ok", None))
          /\ pc' = "replicate"
          /\ UNCHANGED report
       \/ /\ calls' = Append(calls, Call("setup", sp, "Err", None))
          /\ Panic(<<"unwrap on Err", "setup">>)
          /\ UNCHANGED pp
    /\ UNCHANGED <<program, args, rng, replica_id, mmapped, sp, pub_inputs,
                   priv_inputs, param_duration, total_proving, total_verifying,
                   proofs, proof, trial, encoding_time, deviations>>

\* Faulty variant (sensitivity of C1): the loop body starts at replicate.
AfterTrialReplicating(k) == IF k < samples THEN "replicate" ELSE "stats"

\* Faulty variant (sensitivity of C9): the proof is dropped, not collected.
NotPushed(ps, p) == ps

\* for _ in 0..samples: after k trials the loop goes on or ends.
AfterTrial(k) == IF k < samples THEN "prove" ELSE "stats"

\* proofs.push(proof)
Pushed(ps, p) == Append(ps, p)

\* replica_id.into(): the identity as an element of the hasher's domain.
IntoDomain(fr, hasher) == [domain |-> hasher, fr |-> fr]

\* What replicate leaves in the buffer: the replica, of the same length.
Replica(data) == [j \in DOMAIN data |-> "replica"]

\* DrgPoRep::replicate(&pp, &replica_id.into(), &mut mmapped, None).unwrap(),
\* the public and private inputs, and the loop's accumulators.
Replicate ==
    /\ program = "drgporep" /\ pc = "replicate"
    /\ LET id == IntoDomain(replica_id, args.hasher)
       IN  \/ /\ mmapped' = Replica(mmapped)
              /\ pub_inputs' = [replica_id |-> id,
                                challenges |-> [j \in 1..args.count |-> 2],
                                tau        |-> [comm_d |-> "comm_d", comm_r |-> "comm_r"]]
              /\ priv_inputs' = [tree_d |-> "tree_d", tree_r |-> "tree_r"]
              /\ param_duration' = DurationAdd(DurationZero, ReplicateTime)
              /\ total_proving' = DurationZero
              /\ total_verifying' = DurationZero
              /\ proofs' = <<>>
              /\ trial' = 0
              /\ calls' = Append(calls, Call("replicate", id, "Ok", ReplicateTime))
              /\ pc' = AfterTrial(0)
              /\ UNCHANGED report
           \/ /\ calls' = Append(calls, Call("replicate", id, "Err", None))
              /\ Panic(<<"unwrap on Err", "replicate">>)
              /\ UNCHANGED <<mmapped, pub_inputs, priv_inputs, param_duration,
                             total_proving, total_verifying, proofs, trial>>
    /\ UNCHANGED <<program, args, rng, replica_id, sp, pp, proof, encoding_time,
                   deviations>>

\* The first half of a trial: prove, timed.
Prove ==
    /\ program = "drgporep" /\ pc = "prove"
    /\ \/ \E d \in Choices(ProveTimes), n \in Choices(ProofSizes) :
            /\ deviations + Deviates(ProveTimes, d) + Deviates(ProofSizes, n)
                 <= MaxDeviations
            /\ deviations' = deviations + Deviates(ProveTimes, d) + Deviates(ProofSizes, n)
            /\ proof' = [id |-> trial + 1, bytes |-> n]
            /\ total_proving' = DurationAdd(total_proving, d)
            /\ calls' = Append(calls, Call("prove", pub_inputs, proof', d))
            /\ pc' = "verify"
            /\ UNCHANGED report
       \/ /\ calls' = Append(calls, Call("prove", pub_inputs, "Err", None))
          /\ Panic(<<"failed to prove">>)
          /\ UNCHANGED <<proof, total_proving, deviations>>
    /\ UNCHANGED <<program, args, rng, replica_id, mmapped, sp, pp, pub_inputs,
                   priv_inputs, param_duration, total_verifying, proofs, trial,
                   encoding_time>>

\* The second half: verify(..).expect("failed to verify"), timed; expect
\* panics on Err and hands back the bool of Ok, which is dropped.  Then the
\* proof is pushed and the loop goes on or ends.
Verify ==
    /\ program = "drgporep" /\ pc = "verify"
    /\ \/ \E r \in Choices(VerifyResults), v \in Choices(VerifyTimes) :
            /\ deviations + Deviates(VerifyResults, r) + Deviates(VerifyTimes, v)
                 <= MaxDeviations
            /\ deviations' = deviations + Deviates(VerifyResults, r) + Deviates(VerifyTimes, v)
            /\ total_verifying' = DurationAdd(total_verifying, v)
            /\ proofs' = Pushed(proofs, proof)
            /\ trial' = trial + 1
            /\ calls' = Append(calls, Call("verify", proof, r, v))
            /\ pc' = AfterTrial(trial + 1)
            /\ UNCHANGED report
       \/ /\ calls' = Append(calls, Call("verify", proof, "Err", None))
          /\ Panic(<<"failed to verify">>)
          /\ UNCHANGED <<total_verifying, proofs, trial, deviations>>
    /\ UNCHANGED <<program, args, rng, replica_id, mmapped, sp, pp, pub_inputs,
                   priv_inputs, param_duration, total_proving, proof, encoding_time>>

\* p.serialize(): the bytes of a proof.
Serialize(p) == [j \in 1..p.bytes |-> <<"proof", p.id>>]

\* proofs.iter().fold(Vec::new(), |acc, p| acc.extend(p.serialize()))
RECURSIVE SerializedProofs(_)
SerializedProofs(ps) ==
    IF ps = <<>> THEN <<>>
    ELSE SerializedProofs(SubSeq(ps, 1, Len(ps) - 1)) \o Serialize(ps[Len(ps)])

\* Faulty variant (sensitivity of C3): the average is rounded up.
AvgProofSizeRoundedUp(ps) ==
    (Len(SerializedProofs(ps)) + samples - 1) \div samples

\* serialized_proofs.len() / samples as usize
AvgProofSize(ps) == Len(SerializedProofs(ps)) \div samples

\* total / samples: the mean as a Duration.  The f64 printed is its
\* as_secs() + subsec_nanos() / 1e9, the same value in seconds.
Average(impl, total) == DurationDiv(impl, total, samples)

\* The statistics.
Stats ==
    /\ program = "drgporep" /\ pc = "stats"
    /\ \E impl \in DivImpls :
         report' = [avg_proving_time   |-> Average(impl, total_proving),
                    avg_verifying_time |-> Average(impl, total_verifying),
                    replication_time   |-> param_duration,
                    avg_proof_size     |-> AvgProofSize(proofs)]
    /\ pc' = "done"
    /\ UNCHANGED <<program, args, rng, replica_id, mmapped, sp, pp, pub_inputs,
                   priv_inputs, param_duration, total_proving, total_verifying,
                   proofs, proof, trial, encoding_time, calls, deviations>>

(***************************************************************************)
(* encoding.rs                                                             *)
(***************************************************************************)
N_LAYERS == 1

\* The SetupParams record of encoding.rs (layered_drgporep::SetupParams).
LayeredSetupParams(nodes, m, expansion_degree, seed) ==
    [drg |-> [nodes |-> nodes, degree |-> m,
              expansion_degree |-> expansion_degree, seed |-> seed],
     layer_challenges |-> [layers |-> N_LAYERS, count |-> 1],
     beta_heights |-> [l \in 1..N_LAYERS |-> 0]]

\* Elapsed times of vde::encode.
EncodeTimes == {Nanos(1500), Nanos(2048), [secs |-> 1, nanos |-> 1023]}

\* main: the arguments are parsed; the hasher is PedersenHasher.
EncMain ==
    /\ program = "encoding" /\ pc = "main"
    /\ pc' = "do_the_work"
    /\ UNCHANGED <<program, args, rng, replica_id, mmapped, sp, pp, pub_inputs,
                   priv_inputs, param_duration, total_proving, total_verifying,
                   proofs, proof, trial, report, encoding_time, calls, deviations>>

\* do_the_work up to the SetupParams: the buffer is filled first, then the
\* identity is the first value of do_the_work's generator, started from SEED.
EncGenerate ==
    /\ program = "encoding" /\ pc = "do_the_work"
    /\ LET g     == Gen(FromSeed(SEED), "Domain")
           nodes == Nodes(args.size)
       IN  /\ mmapped' = FileBackedMmapFromRandomBytes(nodes)
           /\ rng' = g.rng
           /\ replica_id' = [Alpha |-> g.value]
           /\ \E seed \in GraphSeeds :
                sp' = LayeredSetupParams(nodes, args.m, args.exp, seed)
    /\ pc' = "setup"
    /\ UNCHANGED <<program, args, pp, pub_inputs, priv_inputs, param_duration,
                   total_proving, total_verifying, proofs, proof, trial, report,
                   encoding_time, calls, deviations>>

\* tempfile(), write_all or map_mut fails: unwrap panics.
EncGenerateIoError ==
    /\ program = "encoding" /\ pc = "do_the_work"
    /\ Panic(<<"unwrap on Err", "io">>)
    /\ UNCHANGED <<program, args, rng, replica_id, mmapped, sp, pp, pub_inputs,
                   priv_inputs, param_duration, total_proving, total_verifying,
                   proofs, proof, trial, encoding_time, calls, deviations>>

\* ZigZagDrgPoRep::setup(&sp).unwrap()
EncSetup ==
    /\ program = "encoding" /\ pc = "setup"
    /\ \/ /\ pp' = [graph |-> sp.drg, sp |-> sp]
          /\ calls' = Append(calls, Call("setup", sp, "Ok", None))
          /\ pc' = "encode"
          /\ UNCHANGED report
       \/ /\ calls' = Append(calls, Call("setup", sp, "Err", None))
          /\ Panic(<<"unwrap on Err", "setup">>)
          /\ UNCHANGED pp
    /\ UNCHANGED <<program, args, rng, replica_id, mmapped, sp, pub_inputs,
                   priv_inputs, param_duration, total_proving, total_verifying,
                   proofs, proof, trial, encoding_time, deviations>>

\* What encode leaves in the buffer: the encoding, of the same length.
Encoded(data) == [j \in DOMAIN data |-> "encoded"]

\* vde::encode(&pp.graph, &replica_id, &mut data).unwrap(), timed.
Encode ==
    /\ program = "encoding" /\ pc = "encode"
    /\ \/ \E t \in EncodeTimes :
            /\ mmapped' = Encoded(mmapped)
            /\ encoding_time' = t
            /\ calls' = Append(calls, Call("encode", replica_id, "Ok", t))
            /\ pc' = "report"
            /\ UNCHANGED report
       \/ /\ calls' = Append(calls, Call("encode", replica_id, "Err", None))
          /\ Panic(<<"unwrap on Err", "encode">>)
          /\ UNCHANGED <<mmapped, encoding_time>>
    /\ UNCHANGED <<program, args, rng, replica_id, sp, pp, pub_inputs, priv_inputs,
                   param_duration, total_proving, total_verifying, proofs, proof,
                   trial, deviations>>

\* data_size as u32: size * 1024 modulo 2^32, which is
\* (size modulo 2^32 / 1024) * 1024.
U32_BITS == 32

DataSizeAsU32(size) == (size % Pow2(U32_BITS - CeilLog2(KB))) * KB

\* 1 << 30
GIB_SHIFT == 30

\* Faulty variant (sensitivity of C4): the factor is 1 << 20.
PerMiB(impl, t, size) ==
    DurationDiv(impl, DurationMul(Pow2(GIB_SHIFT - 10), t), DataSizeAsU32(size))

\* encoding_time / data_size as u32
PerByte(impl, t, size) == DurationDiv(impl, t, DataSizeAsU32(size))

\* (1 << 30) * encoding_time / data_size as u32.  (The product panics for
\* an elapsed time of 2^34 s and more, which no run reaches.)
PerGiB(impl, t, size) ==
    DurationDiv(impl, DurationMul(Pow2(GIB_SHIFT), t), DataSizeAsU32(size))

\* The three lines of the report; the first division panics on a zero
\* divisor, after the elapsed time was printed.
Rates(impl, t, size) ==
    IF DataSizeAsU32(size) = 0
    THEN [panic |-> <<"divide by zero error when dividing duration by scalar">>]
    ELSE [encoding_time |-> t,
          per_byte      |-> PerByte(impl, t, size),
          per_gib       |-> PerGiB(impl, t, size)]

Report ==
    /\ program = "encoding" /\ pc = "report"
    /\ \E impl \in DivImpls : report' = Rates(impl, encoding_time, args.size)
    /\ pc' = IF DataSizeAsU32(args.size) = 0 THEN "panic" ELSE "done"
    /\ UNCHANGED <<program, args, rng, replica_id, mmapped, sp, pp, pub_inputs,
                   priv_inputs, param_duration, total_proving, total_verifying,
                   proofs, proof, trial, encoding_time, calls, deviations>>

(***************************************************************************)
(* The runs of the two programs.  Every configuration is run with the      *)
(* usual outcomes of the environment (and any failure); the run of         *)
(* DefaultArgs also with up to MaxDeviations deviating outcomes.           *)
(***************************************************************************)
Init ==
    /\ program \in {"drgporep", "encoding"}
    /\ IF program = "drgporep"
       THEN args \in [size : Sizes, m : {6}, count : {1}, hasher : HasherNames]
       ELSE args \in [size : Sizes, m : {5}, exp : {6}]
    /\ pc = "main"
    /\ deviations \in IF program = "drgporep" /\ args = DefaultArgs
                      THEN {0, MaxDeviations} ELSE {MaxDeviations}
    /\ Unset

Next ==
    \/ Main \/ Generate \/ GenerateIoError \/ Setup \/ Replicate \/ Prove
    \/ Verify \/ Stats
    \/ EncMain \/ EncGenerate \/ EncGenerateIoError \/ EncSetup \/ Encode \/ Report

Spec == Init /\ [][Next]_vars

(***************************************************************************)
(* The rate report of encoding.rs on its own: Rates applied to sizes and   *)
(* elapsed times a whole run cannot be unfolded for (a buffer of 4 GiB).   *)
(***************************************************************************)
\* --size in KB: small ones, 1 GiB, and around 4 GiB (2^22 KB).
RateSizes == {1, 2, 3, 1000, Pow2(20), Pow2(22), Pow2(22) + 1, Pow2(22) + 2}

RateTimes ==
    [secs : {0, 1}, nanos : {0, 1, 1023, 1024, 1500, 2048, 123456789, 999999999}]

InitRates ==
    /\ program = "encoding"
    /\ args \in [size : RateSizes, m : {5}, exp : {6}]
    /\ pc = "rates"
    /\ deviations = MaxDeviations
    /\ UnsetWork
    /\ encoding_time \in RateTimes

ApplyRates ==
    /\ pc = "rates"
    /\ \E impl \in DivImpls : report' = Rates(impl, encoding_time, args.size)
    /\ pc' = "rates_done"
    /\ UNCHANGED <<program, args, rng, replica_id, mmapped, sp, pp, pub_inputs,
                   priv_inputs, param_duration, total_proving, total_verifying,
                   proofs, proof, trial, encoding_time, calls, deviations>>

NextRates == ApplyRates

SpecRates == InitRates /\ [][NextRates]_vars

(***************************************************************************)
(* The parameter assembly of drgporep-vanilla-disk.rs on its own:          *)
(* SetupParams applied to sizes a whole run cannot be unfolded for.        *)
(***************************************************************************)
\* --size in KB: small ones, and around 16 GiB (2^24 KB) and 32 GiB.
BetaSizes ==
    (1..40) \cup {Pow2(e) + d : e \in {10, 20, 21, 23, 24, 25}, d \in {0, 1, 2, 3}}
            \cup {Pow2(24) - 1, Pow2(25) - 1}

InitBeta ==
    /\ program = "drgporep"
    /\ args \in [size : BetaSizes, m : {6}, count : {1}, hasher : {"pedersen"}]
    /\ pc = "params"
    /\ deviations = MaxDeviations
    /\ Unset

AssembleParams ==
    /\ pc = "params"
    /\ \E seed \in GraphSeeds :
         sp' = SetupParams(Nodes(args.size), args.m, args.count, seed)
    /\ pc' = "params_done"
    /\ UNCHANGED <<program, args, rng, replica_id, mmapped, pp, pub_inputs,
                   priv_inputs, param_duration, total_proving, total_verifying,
                   proofs, proof, trial, report, encoding_time, calls, deviations>>

NextBeta == AssembleParams

SpecBeta == InitBeta /\ [][NextBeta]_vars

(***************************************************************************)
(* The claims.                                                             *)
(***************************************************************************)
IsDrg == program = "drgporep"

\* The run has reached the statistics report.
Reported == IsDrg /\ pc \in {"stats", "done"}

Ops(op) == {i \in 1..Len(calls) : calls[i].op = op}

DurationNanos(d) == d.secs * NANOS_PER_SEC + d.nanos

\* The elapsed times of the first i calls that are calls of op, in ns.
RECURSIVE SumTook(_, _)
SumTook(op, i) ==
    IF i = 0 THEN 0
    ELSE SumTook(op, i - 1)
           + (IF calls[i].op = op THEN DurationNanos(calls[i].took) ELSE 0)

\* The serialized lengths of the first i proofs collected.
RECURSIVE SumBytes(_)
SumBytes(i) == IF i = 0 THEN 0 ELSE SumBytes(i - 1) + proofs[i].bytes

\* C1: a full-cycle run never calls setup or replicate but as its first and
\* second call, never proves before replicate has returned Ok, and when it
\* reaches the statistics report its calls are exactly setup, replicate and
\* 30 times a prove followed by a verify of the proof that prove returned.
C1_CallOrder ==
    IsDrg =>
      /\ \A i \in Ops("setup") : i = 1
      /\ \A i \in Ops("replicate") : i = 2
      /\ \A i \in Ops("prove") :
            i > 2 /\ calls[2].op = "replicate" /\ calls[2].ret = "Ok"
      /\ Reported =>
            /\ Len(calls) = 2 + 2 * 30
            /\ calls[1].op = "setup" /\ calls[2].op = "replicate"
            /\ \A k \in 1..30 :
                  /\ calls[2 * k + 1].op = "prove"
                  /\ calls[2 * k + 2].op = "verify"
                  /\ calls[2 * k + 2].arg = calls[2 * k + 1].ret

C1_Witness == IsDrg /\ pc = "done" /\ Len(calls) = 62 /\ calls[62].op = "verify"

\* C2: a verify call that does not return Ok(true) is the last call of the
\* run, which has panicked; so a run that reports statistics has verified
\* every proof as valid.  (Stated as claimed; the code contradicts it.)
C2_VerifyFailureFatal ==
    IsDrg =>
      \A i \in Ops("verify") :
         calls[i].ret # "Ok(true)" => (i = Len(calls) /\ pc = "panic")

\* C3 as claimed: the reported mean proving and verifying times are within
\* less than 1 ns of (sum of the elapsed times) / 30, and 30 times the
\* reported average proof size is the sum of the serialized lengths.
C3_Original ==
    (IsDrg /\ pc = "done") =>
      LET dp == SumTook("prove", Len(calls)) - 30 * DurationNanos(report.avg_proving_time)
          dv == SumTook("verify", Len(calls)) - 30 * DurationNanos(report.avg_verifying_time)
      IN  /\ -30 < dp /\ dp < 30
          /\ -30 < dv /\ dv < 30
          /\ 30 * report.avg_proof_size = SumBytes(Len(proofs))

\* C3 as amended: the reported means are never above the exact means and
\* less than 2 ns below them, and the reported average proof size is the
\* exact average rounded down to a whole number of bytes.
C3_Means ==
    (IsDrg /\ pc = "done") =>
      LET dp == SumTook("prove", Len(calls)) - 30 * DurationNanos(report.avg_proving_time)
          dv == SumTook("verify", Len(calls)) - 30 * DurationNanos(report.avg_verifying_time)
          sb == SumBytes(Len(proofs))
      IN  /\ Len(proofs) = 30
          /\ 0 <= dp /\ dp < 2 * 30
          /\ 0 <= dv /\ dv < 2 * 30
          /\ 30 * report.avg_proof_size <= sb
          /\ sb < 30 * (report.avg_proof_size + 1)

\* A report over proofs whose lengths do not add up to a multiple of 30.
C3_Witness ==
    IsDrg /\ pc = "done" /\ SumBytes(Len(proofs)) % 30 # 0
      /\ report.avg_proof_size = ShortProof

\* The rate report was printed (no panic).
HasRates == pc = "rates_done" /\ "per_byte" \in DOMAIN report

\* C4 as claimed: the per-GiB rate is the per-byte rate times 2^30.
C4_Original ==
    HasRates => report.per_gib = DurationMul(Pow2(30), report.per_byte)

\* C4 as amended: the per-GiB rate is at least the per-byte rate times 2^30
\* less 1 ns, and less than (the per-byte rate + 2 ns) times 2^30.
C4_PerGiBBounds ==
    HasRates =>
      /\ DurationLE(DurationMul(Pow2(30), report.per_byte),
                    DurationAdd(report.per_gib, Nanos(1)))
      /\ DurationLT(report.per_gib,
                    DurationMul(Pow2(30), DurationAdd(report.per_byte, Nanos(2))))

\* A report whose per-GiB rate is not the per-byte rate times 2^30.
C4_Witness ==
    HasRates /\ report.per_byte.nanos > 0
      /\ DurationLT(DurationMul(Pow2(30), report.per_byte), report.per_gib)

\* C5: for every size the per-byte rate is reported, and the per-byte rate
\* times the byte count (size * 1024) differs from the elapsed time by less
\* than byte count nanoseconds.  (Stated as claimed; the code contradicts it.)
C5_PerByteRate ==
    pc = "rates_done" =>
      /\ "per_byte" \in DOMAIN report
      /\ LET bytes == DurationMul(args.size, Nanos(KB))
             prod  == DurationMul(args.size, DurationMul(KB, report.per_byte))
         IN  /\ DurationLT(prod, DurationAdd(encoding_time, bytes))
             /\ DurationLT(encoding_time, DurationAdd(prod, bytes))

\* C6: prev_layer_beta_height is the ceiling of log2 of the node count, plus
\* one.  (Stated as claimed; the code contradicts it.)
C6_PrevLayerBetaHeight ==
    pc = "params_done" =>
      sp.prev_layer_beta_height = CeilLog2(Nodes(args.size)) + 1

\* C7: with a hasher name other than the three known ones the full-cycle
\* run is at its start or has panicked with "invalid hasher"; no buffer was
\* generated and the library was never called.
C7_UnknownHasherFatal ==
    (IsDrg /\ args.hasher \notin {"pedersen", "sha256", "blake2s"}) =>
      /\ pc \in {"main", "panic"}
      /\ mmapped = <<>>
      /\ calls = <<>>
      /\ pc = "panic" => report.panic[1] = "invalid hasher"

C7_Witness ==
    IsDrg /\ pc = "panic" /\ args.hasher = "xyz" /\ calls = <<>> /\ mmapped = <<>>

\* The buffer of a run of `size` KB: the serializations of the first
\* size * 1024 / 32 field elements of the generator started from SEED.
ExpectedBuffer(size) ==
    [j \in 1..(size * 1024) |->
       <<[seed |-> SEED, draw |-> (j - 1) \div 32 + 1, ty |-> "Fr"], ((j - 1) % 32) + 1>>]

\* The replica identity of a run: the first value of that generator.
ExpectedIdentity ==
    IF IsDrg THEN [seed |-> SEED, draw |-> 1, ty |-> "Fr"]
    ELSE [Alpha |-> [seed |-> SEED, draw |-> 1, ty |-> "Domain"]]

\* C8: before replicate or encode touches it, the generated buffer is a
\* function of the size alone and the replica identity is one fixed value
\* per program: neither depends on the graph seed drawn for setup, so two
\* runs with the same arguments have the same buffer and identity.
C8_Deterministic ==
    pc = "setup" =>
      /\ mmapped = ExpectedBuffer(args.size)
      /\ replica_id = ExpectedIdentity

C8_Witness ==
    pc = "setup" /\ args.size = 2 /\ sp.drg.seed = <<"fresh", "b">>
      /\ Len(mmapped) = 2048

\* C9 as claimed: when the verify call of trial k starts, the collection
\* holds k proofs.
C9_Original == (IsDrg /\ pc = "verify") => Len(proofs) = Cardinality(Ops("verify")) + 1

\* C9 as amended: the proof is appended after its verify call has returned:
\* when the verify call of trial k starts the collection holds the k - 1
\* proofs of the earlier trials, and once it has returned the collection
\* holds k proofs, the last being the proof verified.
C9_PushAfterVerify ==
    IsDrg =>
      /\ pc = "verify" =>
            /\ Len(proofs) = Cardinality(Ops("verify"))
            /\ Cardinality(Ops("prove")) = Len(proofs) + 1
            /\ \A i \in 1..Len(proofs) : proofs[i] # proof
      /\ (pc \in {"prove", "stats", "done"} /\ Ops("verify") # {}) =>
            /\ Len(proofs) = Cardinality(Ops("verify"))
            /\ calls[Len(calls)].op = "verify"
            /\ proofs[Len(proofs)] = calls[Len(calls)].arg

C9_Witness ==
    IsDrg /\ pc = "verify" /\ Cardinality(Ops("prove")) = 30 /\ Len(proofs) = 29

\* C10: in the full-cycle run the first 32 bytes of the generated buffer are
\* the serialization of the replica identity.
C10_IdentityIsFirstElement ==
    (IsDrg /\ pc = "setup") =>
      /\ Len(mmapped) >= 32
      /\ \A b \in 1..32 : mmapped[b] = FrIntoBytes(replica_id)[b]

C10_Witness ==
    IsDrg /\ pc = "setup" /\ args.size = 2 /\ mmapped[1] = <<replica_id, 1>>

====
